---- MODULE Spec2Model ----
(***************************************************************************)
(* Model of the vpy scripting core of Pymixer (src/vpy/types.py):          *)
(*   - the Operator invocation protocol (Operator.__call__, report, the    *)
(*     poll and execute hooks) acting on the process-wide Context;         *)
(*   - the typed properties IntProp, FloatProp and EnumProp;               *)
(*   - the two-level operator registry OpsModule / OpCollection.           *)
(* Optional values (Python None) are sequences of length at most one:      *)
(* <<>> is None and <<x>> is the value x.                                  *)
(***************************************************************************)
EXTENDS Integers, Sequences, FiniteSets, TLC

\* ------------------------------------------------------------------------
\* Bounds of the model
\* ------------------------------------------------------------------------
\* positional argument counts range over 0..MaxArgs
MaxArgs == 2
\* cap on context.num_changes (number of invocations started in a run)
MaxChanges == 2
\* cap on the depth of the call stack of operator invocations
MaxDepth == 2
\* the readings of time.time() range over 0..MaxTime
MaxTime == 1
\* property values and set() arguments range over -MaxVal..MaxVal
MaxVal == 2
\* explicit min/max bounds of a numeric property range over -MaxBound..MaxBound
MaxBound == 1
\* an EnumProp has 0..MaxItems items
MaxItems == 3
\* cap on the number of registrations in a run
MaxRegs == 2
\* operator instances are numbered 1..MaxInst
MaxInst == 2
\* the interpreter's limit on the depth of nested calls
MaxRecursion == 3
\* register(dirs) is given 1..MaxDirs directories
MaxDirs == 2
\* a directory lists 0..MaxEntries entries
MaxEntries == 2
\* a frame carries 0..MaxEvents events
MaxEvents == 2
\* mouse coordinates are 0..MaxCoord on each axis
MaxCoord == 1
\* the preview is panned at most MaxLoc away from the origin on each axis
MaxLoc == 1
\* at most MaxZoom wheel steps are applied to the preview size
MaxZoom == 2

\* keyword-argument names a caller may pass
KwNames == {"a", "b", "c"}

\* ------------------------------------------------------------------------
\* State
\* ------------------------------------------------------------------------
VARIABLES
    num_changes,        \* Context.num_changes
    last_report,        \* Context.last_report: <<>> (None) or <<type, msg>>
    last_report_time,   \* Context.last_report_time
    stack,              \* call stack of Operator.__call__ activations
    ret,                \* outcome of the invocation that has just ended
    reportCalls,        \* history: the arguments <<type, msg>> of the most
                        \* recent call of report, <<>> before the first
    started,            \* history: the number of invocations started
    prop,               \* a typed property object (IntProp, FloatProp, EnumProp)
    propArg,            \* argument of the last set() on prop: <<>> or <<v>>
    colls,              \* OpsModule.colls: name -> (OpCollection.operators)
    regLog,             \* registrations made so far, oldest first
    lookup,             \* outcome of the last two-level resolution
    sceneAttached,      \* names attached to the Scene by registration
    pcValues,           \* PropCollection._values: name -> property
    attrLookup,         \* outcome of the last lookup on Scene / PropCollection
    dirs,               \* the argument of register(dirs) and what the disk holds
    loadPc,             \* position of the load pass: <<directory, entry>> or "done"
    sysPath,            \* the directories the pass has appended to sys.path
    sysModules,         \* sys.modules: module name -> module loaded under it
    registerLog,        \* the modules whose register() was invoked, in order
    size,               \* Preview.size: the wheel steps applied to 540, in order
    loc,                \* Preview.loc
    dragging,           \* Preview.dragging
    drag_start_pos,     \* Preview.drag_start_pos
    drag_start_loc,     \* Preview.drag_start_loc
    drawError,          \* the exception the last draw call ended with, or "none"
    track,              \* history: one record per activation of stack
    trackRet            \* history: the record of the invocation in ret

opVars == <<num_changes, last_report, last_report_time, stack, ret,
            reportCalls, started>>
propVars == <<prop, propArg>>
regVars == <<colls, regLog, lookup>>
attrVars == <<sceneAttached, pcValues, attrLookup>>
loadVars == <<dirs, loadPc, sysPath, sysModules, registerLog>>
previewVars == <<size, loc, dragging, drag_start_pos, drag_start_loc,
                 drawError>>
trackVars == <<track, trackRet>>
otherVars == <<attrVars, loadVars, previewVars, trackVars>>
vars == <<num_changes, last_report, last_report_time, stack, ret,
          reportCalls, started,
          prop, propArg, colls, regLog, lookup,
          sceneAttached, pcValues, attrLookup,
          dirs, loadPc, sysPath, sysModules, registerLog,
          size, loc, dragging, drag_start_pos, drag_start_loc, drawError,
          track, trackRet>>

\* ------------------------------------------------------------------------
\* Operator classes
\* ------------------------------------------------------------------------
\* Class attributes of Operator and of three subclasses of it.  "base" is
\* the Operator class itself: no argument contract, poll and execute not
\* overridden.  The subclasses override both hooks.
Operators ==
    [ base   |-> [ min_args |-> <<>>,  max_args |-> <<>>,
                   kwargs_include |-> <<>>, kwargs_exclude |-> <<>>,
                   overrides |-> FALSE ],
      count  |-> [ min_args |-> <<1>>, max_args |-> <<1>>,
                   kwargs_include |-> <<>>, kwargs_exclude |-> <<>>,
                   overrides |-> TRUE ],
      kw     |-> [ min_args |-> <<>>,  max_args |-> <<>>,
                   kwargs_include |-> <<"a", "b">>, kwargs_exclude |-> <<"c">>,
                   overrides |-> TRUE ],
      strict |-> [ min_args |-> <<1>>, max_args |-> <<2>>,
                   kwargs_include |-> <<"a">>, kwargs_exclude |-> <<"c">>,
                   overrides |-> TRUE ] ]

OpIds == DOMAIN Operators

\* the statuses execute is allowed to return
ValidStatus == {"FINISHED", "CANCELLED"}

\* Operator.poll: the default returns True; an overriding hook may return
\* True or False, or raise.
poll(op) ==
    IF Operators[op].overrides THEN {"TRUE", "FALSE", "RAISE"} ELSE {"TRUE"}

\* Operator.execute: the default returns "FINISHED"; an overriding hook may
\* return a valid status or something else ("MAYBE").
execute(op) ==
    IF Operators[op].overrides THEN {"FINISHED", "CANCELLED", "MAYBE"}
    ELSE {"FINISHED"}

\* ------------------------------------------------------------------------
\* Operator.__call__: validation
\* ------------------------------------------------------------------------
Msg(kind, arg, op) == [kind |-> kind, arg |-> arg, op |-> op]

\* faulty variant of TooFew: the comparison is off by one
TooFew_OffByOne(op, nargs) ==
    /\ Operators[op].min_args # <<>>
    /\ nargs + 1 < Operators[op].min_args[1]

\* line 134: self.min_args is not None and len(args) < self.min_args
TooFew(op, nargs) ==
    /\ Operators[op].min_args # <<>>
    /\ nargs < Operators[op].min_args[1]

\* line 137: self.max_args is not None and len(args) > self.max_args
TooMany(op, nargs) ==
    /\ Operators[op].max_args # <<>>
    /\ nargs > Operators[op].max_args[1]

\* faulty variant of MissingKwargs: only the first name is looked at
MissingKwargs_FirstOnly(op, kwargs) ==
    { i \in DOMAIN Operators[op].kwargs_include :
        i = 1 /\ Operators[op].kwargs_include[i] \notin kwargs }

\* lines 140-143: positions of kwargs_include whose name is not in kwargs
MissingKwargs(op, kwargs) ==
    { i \in DOMAIN Operators[op].kwargs_include :
        Operators[op].kwargs_include[i] \notin kwargs }

\* lines 144-147: positions of kwargs_exclude whose name is in kwargs
ForbiddenKwargs(op, kwargs) ==
    { i \in DOMAIN Operators[op].kwargs_exclude :
        Operators[op].kwargs_exclude[i] \in kwargs }

SetMin(S) == CHOOSE x \in S : \A y \in S : x <= y

\* faulty variant of Validate: the keyword checks come before the count
\* checks
Validate_KeywordsFirst(op, nargs, kwargs) ==
    IF MissingKwargs(op, kwargs) # {}
    THEN <<Msg("MustInclude",
               Operators[op].kwargs_include[SetMin(MissingKwargs(op, kwargs))],
               op)>>
    ELSE IF ForbiddenKwargs(op, kwargs) # {}
    THEN <<Msg("MustExclude",
               Operators[op].kwargs_exclude[SetMin(ForbiddenKwargs(op, kwargs))],
               op)>>
    ELSE IF TooFew(op, nargs) THEN <<Msg("TooFew", "", op)>>
    ELSE IF TooMany(op, nargs) THEN <<Msg("TooMany", "", op)>>
    ELSE <<>>

\* lines 134-147: the message of the first failing check, <<>> if none fails
Validate(op, nargs, kwargs) ==
    IF TooFew(op, nargs) THEN <<Msg("TooFew", "", op)>>
    ELSE IF TooMany(op, nargs) THEN <<Msg("TooMany", "", op)>>
    ELSE IF MissingKwargs(op, kwargs) # {}
    THEN <<Msg("MustInclude",
               Operators[op].kwargs_include[SetMin(MissingKwargs(op, kwargs))],
               op)>>
    ELSE IF ForbiddenKwargs(op, kwargs) # {}
    THEN <<Msg("MustExclude",
               Operators[op].kwargs_exclude[SetMin(ForbiddenKwargs(op, kwargs))],
               op)>>
    ELSE <<>>

\* faulty variant of Increment: the change is counted after validation,
\* so a rejected call is not counted
Increment_AfterValidation(n, rejected) == IF rejected THEN n ELSE n + 1

\* line 132: vpy.context.num_changes += 1, executed before the checks
\* whose verdict is `rejected`
Increment(n, rejected) == n + 1

\* faulty variant of PollValue: a raising poll counts as a passed poll
PollValue_RaiseIsTrue(outcome) == outcome # "FALSE"

\* lines 149-152: the value of the local `poll` after the try/except
PollValue(outcome) == outcome = "TRUE"

\* faulty variant of Accepted: only "FINISHED" is taken as a valid status
Accepted_FinishedOnly(val) == val = "FINISHED"

\* line 156: val in ("FINISHED", "CANCELLED")
Accepted(val) == val \in ValidStatus

\* faulty variant of CallResult: an invalid status is answered with
\* "CANCELLED"
CallResult_Cancelled(val) ==
    IF val \notin ValidStatus THEN "CANCELLED" ELSE "None"

\* lines 155-161 on the branch where poll is true: what __call__ returns
\* for the value val that execute returned ("None": falls off the end)
CallResult(val) ==
    IF val \notin ValidStatus THEN "FINISHED" ELSE "None"

\* ------------------------------------------------------------------------
\* Activation records
\* ------------------------------------------------------------------------
Frame(op, nargs, kwargs) ==
    [op |-> op, nargs |-> nargs, kwargs |-> kwargs, pc |-> "poll",
     pollres |-> "-", npoll |-> 0, nexec |-> 0, nrep |-> 0]

\* what the caller observes when the invocation with activation record f
\* ends: the status it returns ("None": no return value, "RAISED": a fault
\* leaves it), what its hooks did (val: what execute returned, "-" if it
\* was not called), how often each hook was called, and how many reports
\* __call__ itself wrote
Outcome(f, status, val) ==
    [op |-> f.op, nargs |-> f.nargs, kwargs |-> f.kwargs,
     status |-> status, pollres |-> f.pollres, val |-> val,
     npoll |-> f.npoll, nexec |-> f.nexec, nrep |-> f.nrep]

\* the activation record after one more report written by __call__
Reported(f) == [f EXCEPT !.nrep = @ + 1]

Top == stack[Len(stack)]
Pop == SubSeq(stack, 1, Len(stack) - 1)
SetTop(f) == [stack EXCEPT ![Len(stack)] = f]

\* faulty variant of StoreReport: the first report is kept
StoreReport_KeepFirst(old, type, msg) ==
    IF old = <<>> THEN <<type, msg>> ELSE old

\* line 170: context.last_report = (type, msg), whatever the field held
StoreReport(old, type, msg) == <<type, msg>>

\* Operator.report (lines 163-171); time.time() reads a clock that does
\* not run backwards
report(type, msg) ==
    /\ last_report' = StoreReport(last_report, type, msg)
    /\ last_report_time' \in last_report_time..MaxTime
    /\ reportCalls' = <<type, msg>>

\* ------------------------------------------------------------------------
\* Operator.__call__: actions
\* ------------------------------------------------------------------------
\* faulty variant of Enter: a nested invocation is not counted
Enter_NestedUncounted(op, nargs, kwargs) ==
    LET v == Validate(op, nargs, kwargs)
        f == Frame(op, nargs, kwargs)
    IN  /\ num_changes < MaxChanges
        /\ started < MaxChanges
        /\ num_changes' = IF stack = <<>>
                          THEN Increment(num_changes, v # <<>>)
                          ELSE num_changes
        /\ started' = started + 1
        /\ IF v # <<>>
           THEN /\ report("ERROR", v[1])
                /\ ret' = <<Outcome(Reported(f), "CANCELLED", "-")>>
                /\ stack' = stack
           ELSE /\ stack' = Append(stack, f)
                /\ ret' = <<>>
                /\ UNCHANGED <<last_report, last_report_time, reportCalls>>

\* Entry of __call__ up to the end of validation (lines 131-147): count the
\* change, then either reject with a report or go on to poll.
Enter(op, nargs, kwargs) ==
    LET v == Validate(op, nargs, kwargs)
        f == Frame(op, nargs, kwargs)
    IN  /\ num_changes < MaxChanges
        /\ started < MaxChanges
        /\ num_changes' = Increment(num_changes, v # <<>>)
        /\ started' = started + 1
        /\ IF v # <<>>
           THEN /\ report("ERROR", v[1])
                /\ ret' = <<Outcome(Reported(f), "CANCELLED", "-")>>
                /\ stack' = stack
           ELSE /\ stack' = Append(stack, f)
                /\ ret' = <<>>
                /\ UNCHANGED <<last_report, last_report_time, reportCalls>>

\* an operator is invoked from outside any operator (GUI, script)
Invoke ==
    /\ stack = <<>>
    /\ \E op \in OpIds, nargs \in 0..MaxArgs, kwargs \in SUBSET KwNames :
          Enter(op, nargs, kwargs)
    /\ UNCHANGED <<propVars, regVars, otherVars>>

\* an overriding execute hook invokes an operator (nested invocation)
NestedInvoke ==
    /\ stack # <<>>
    /\ Top.pc = "execute"
    /\ Operators[Top.op].overrides
    /\ Len(stack) < MaxDepth
    /\ \E op \in OpIds, nargs \in 0..MaxArgs, kwargs \in SUBSET KwNames :
          Enter(op, nargs, kwargs)
    /\ UNCHANGED <<propVars, regVars, otherVars>>

\* lines 149-154 and 159-161: call poll; on a true result enter execute,
\* otherwise report and return "CANCELLED"
PollStep ==
    /\ stack # <<>>
    /\ Top.pc = "poll"
    /\ \E outcome \in poll(Top.op) :
          LET f == [Top EXCEPT !.pollres = outcome, !.npoll = @ + 1]
          IN  IF PollValue(outcome)
              THEN /\ stack' = SetTop([f EXCEPT !.pc = "execute",
                                                !.nexec = @ + 1])
                   /\ ret' = <<>>
                   /\ UNCHANGED <<last_report, last_report_time, reportCalls>>
              ELSE /\ report("ERROR", Msg("PollFailed", "", f.op))
                   /\ stack' = Pop
                   /\ ret' = <<Outcome(Reported(f), "CANCELLED", "-")>>
    /\ UNCHANGED <<num_changes, started>>

Poll == PollStep /\ UNCHANGED <<propVars, regVars, otherVars>>

\* an overriding execute hook calls self.report
ExecReportStep ==
    /\ stack # <<>>
    /\ Top.pc = "execute"
    /\ Operators[Top.op].overrides
    /\ \E type \in {"INFO", "WARNING"} :
          report(type, Msg("Custom", "", Top.op))
    /\ ret' = <<>>
    /\ UNCHANGED <<num_changes, started, stack>>

ExecReport == ExecReportStep /\ UNCHANGED <<propVars, regVars, otherVars>>

\* lines 155-158: execute returns val; an invalid val is reported and
\* answered with "FINISHED", a valid one falls off the end of __call__
ExecReturnStep ==
    /\ stack # <<>>
    /\ Top.pc = "execute"
    /\ \E val \in execute(Top.op) :
          /\ IF ~Accepted(val)
             THEN /\ report("ERROR", Msg("InvalidReturn", "", Top.op))
                  /\ ret' = <<Outcome(Reported(Top), CallResult(val), val)>>
             ELSE /\ UNCHANGED <<last_report, last_report_time, reportCalls>>
                  /\ ret' = <<Outcome(Top, CallResult(val), val)>>
    /\ stack' = Pop
    /\ UNCHANGED <<num_changes, started>>

ExecReturn == ExecReturnStep /\ UNCHANGED <<propVars, regVars, otherVars>>

\* line 155: an overriding execute hook raises; __call__ has no handler
\* around execute, so the fault leaves the invocation.  In a nested
\* invocation the fault arrives in the calling execute hook, which either
\* handles it and goes on or lets it through (ExecRaise of the caller).
ExecRaiseStep ==
    /\ stack # <<>>
    /\ Top.pc = "execute"
    /\ Operators[Top.op].overrides
    /\ ret' = <<Outcome(Top, "RAISED", "RAISE")>>
    /\ stack' = Pop
    /\ UNCHANGED <<num_changes, started, last_report, last_report_time,
                   reportCalls>>

ExecRaise == ExecRaiseStep /\ UNCHANGED <<propVars, regVars, otherVars>>

\* ------------------------------------------------------------------------
\* Invocations with a record of what each one found and did
\* ------------------------------------------------------------------------
\* The same protocol steps, with a history record per activation: snap is
\* <<last_report, last_report_time>> as the invocation found them, reported
\* says that its execute hook called report, inner that an invocation
\* nested in it (at any depth) wrote a report.
TrackedArgs == 0..1
TrackedKwargs == {{}, {"a", "b"}}

TrackRecord ==
    [snap |-> <<last_report, last_report_time>>, reported |-> FALSE,
     inner |-> FALSE]

\* the records of t with every one marked: a nested invocation has reported
MarkInner(t) == [i \in DOMAIN t |-> [t[i] EXCEPT !.inner = TRUE]]

\* the bookkeeping of a step that starts an invocation
TrackEnter ==
    IF Len(stack') > Len(stack)
    THEN /\ track' = Append(track, TrackRecord)
         /\ trackRet' = <<>>
    ELSE /\ track' = MarkInner(track)
         /\ trackRet' = <<TrackRecord>>

\* the bookkeeping of a step of the top activation that may end it; when
\* __call__ wrote a report on the way out, the callers are marked
TrackStep ==
    LET n == Len(track)
        below == SubSeq(track, 1, n - 1)
    IN  IF Len(stack') < Len(stack)
        THEN /\ track' = IF ret'[1].nrep > Top.nrep
                         THEN MarkInner(below) ELSE below
             /\ trackRet' = <<track[n]>>
        ELSE /\ UNCHANGED track
             /\ trackRet' = <<>>

TrackedInvoke ==
    /\ stack = <<>>
    /\ \E op \in OpIds, nargs \in TrackedArgs, kwargs \in TrackedKwargs :
          Enter(op, nargs, kwargs)
    /\ TrackEnter
    /\ UNCHANGED <<propVars, regVars, attrVars, loadVars, previewVars>>

TrackedNestedInvoke ==
    /\ stack # <<>>
    /\ Top.pc = "execute"
    /\ Operators[Top.op].overrides
    /\ Len(stack) < MaxDepth
    /\ \E op \in OpIds, nargs \in TrackedArgs, kwargs \in TrackedKwargs :
          Enter(op, nargs, kwargs)
    /\ TrackEnter
    /\ UNCHANGED <<propVars, regVars, attrVars, loadVars, previewVars>>

TrackedPoll ==
    /\ PollStep
    /\ TrackStep
    /\ UNCHANGED <<propVars, regVars, attrVars, loadVars, previewVars>>

TrackedExecReport ==
    /\ ExecReportStep
    /\ track' = MarkInner(SubSeq(track, 1, Len(track) - 1)) \o
                 <<[track[Len(track)] EXCEPT !.reported = TRUE]>>
    /\ trackRet' = <<>>
    /\ UNCHANGED <<propVars, regVars, attrVars, loadVars, previewVars>>

TrackedExecReturn ==
    /\ ExecReturnStep
    /\ TrackStep
    /\ UNCHANGED <<propVars, regVars, attrVars, loadVars, previewVars>>

TrackedExecRaise ==
    /\ ExecRaiseStep
    /\ TrackStep
    /\ UNCHANGED <<propVars, regVars, attrVars, loadVars, previewVars>>

\* ------------------------------------------------------------------------
\* Numbers: Python ints and floats.  A finite number is Num(n); the floats
\* float("-inf"), float("inf") and float("nan") are values of their own.
\* ------------------------------------------------------------------------
Num(n) == [k |-> "num", v |-> n]
NegInf == [k |-> "-inf", v |-> 0]
PosInf == [k |-> "inf", v |-> 0]
NaN    == [k |-> "nan", v |-> 0]

\* Python's a < b: every comparison with nan is false
Lt(a, b) ==
    IF a.k = "nan" \/ b.k = "nan" THEN FALSE
    ELSE IF a.k = "-inf" THEN b.k # "-inf"
    ELSE IF a.k = "inf" THEN FALSE
    ELSE IF b.k = "inf" THEN TRUE
    ELSE IF b.k = "-inf" THEN FALSE
    ELSE a.v < b.v

\* Python's a <= b
Le(a, b) ==
    IF a.k = "nan" \/ b.k = "nan" THEN FALSE
    ELSE a = b \/ Lt(a, b)

IntValues == { Num(n) : n \in -MaxVal..MaxVal }
FloatValues == IntValues \cup {NegInf, PosInf, NaN}
\* the min= / max= arguments of a constructor: None or a finite number
BoundArgs == {<<>>} \cup { <<Num(n)>> : n \in -MaxBound..MaxBound }

\* ------------------------------------------------------------------------
\* Typed properties
\* ------------------------------------------------------------------------
\* IntProp.__init__ (lines 312-319), default left at 0
IntProp(min, max) ==
    [kind |-> "int", default |-> Num(0),
     min |-> IF min = <<>> THEN NegInf ELSE min[1],
     max |-> IF max = <<>> THEN PosInf ELSE max[1],
     value |-> Num(0)]

\* FloatProp.__init__ (lines 337-344), default left at 0
FloatProp(min, max) ==
    [kind |-> "float", default |-> Num(0),
     min |-> IF min = <<>> THEN NegInf ELSE min[1],
     max |-> IF max = <<>> THEN PosInf ELSE max[1],
     value |-> Num(0)]

\* IntProp.set (lines 321-326)
IntProp_set(p, value) ==
    LET v1 == IF Lt(value, p.min) THEN p.min ELSE value
        v2 == IF Lt(p.max, v1) THEN p.max ELSE v1
    IN  [p EXCEPT !.value = v2]

\* FloatProp.set (lines 346-351)
FloatProp_set(p, value) ==
    LET v1 == IF Lt(value, p.min) THEN p.min ELSE value
        v2 == IF Lt(p.max, v1) THEN p.max ELSE v1
    IN  [p EXCEPT !.value = v2]

\* Property.get (lines 283-284)
Property_get(p) == p.value

\* the items of an enumeration: (id, label) tuples
Item(i) == <<ToString(i), "label">>

\* EnumProp.__init__ (lines 376-380) with n items
EnumProp(n) ==
    [kind |-> "enum", items |-> [i \in 1..n |-> Item(i)], idx |-> 0]

Min(a, b) == IF b < a THEN b ELSE a

\* EnumProp.set (lines 385-386)
EnumProp_set(p, idx) ==
    [p EXCEPT !.idx = Min(idx, Len(p.items) - 1)]

\* EnumProp.get (lines 382-383): self.items[self.idx][0] with Python's
\* indexing, where a negative index counts from the end and an index
\* outside -len..len-1 raises IndexError
EnumProp_get(p) ==
    LET n == Len(p.items)
    IN  IF 0 <= p.idx /\ p.idx < n THEN p.items[p.idx + 1][1]
        ELSE IF -n <= p.idx /\ p.idx < 0 THEN p.items[n + p.idx + 1][1]
        ELSE "IndexError"

\* the property objects a run may start from
Props ==
    { IntProp(lo, hi) : lo \in BoundArgs, hi \in BoundArgs }
    \cup { FloatProp(lo, hi) : lo \in BoundArgs, hi \in BoundArgs }
    \cup { EnumProp(n) : n \in 0..MaxItems }

IntSet ==
    /\ prop.kind = "int"
    /\ \E v \in IntValues :
          /\ prop' = IntProp_set(prop, v)
          /\ propArg' = <<v>>
    /\ UNCHANGED <<opVars, regVars, otherVars>>

FloatSet ==
    /\ prop.kind = "float"
    /\ \E v \in FloatValues :
          /\ prop' = FloatProp_set(prop, v)
          /\ propArg' = <<v>>
    /\ UNCHANGED <<opVars, regVars, otherVars>>

EnumSet ==
    /\ prop.kind = "enum"
    /\ \E i \in -(MaxItems + 1)..(MaxItems + 1) :
          /\ prop' = EnumProp_set(prop, i)
          /\ propArg' = <<i>>
    /\ UNCHANGED <<opVars, regVars, otherVars>>

\* ------------------------------------------------------------------------
\* Operator registry: OpsModule and OpCollection
\* ------------------------------------------------------------------------
\* names used as collection names and as operator names
Names == {"mycoll", "foo", "operators", "colls"}
Instances == 1..MaxInst

Found(tag, val) == [tag |-> tag, val |-> val]
AttributeError == [tag |-> "AttributeError", val |-> 0]

\* d[k] = v on a Python dict
Put(d, k, v) == [x \in DOMAIN d \cup {k} |-> IF x = k THEN v ELSE d[x]]

\* OpsModule.__init__ (lines 221-222): self.colls = {}
OpsModule == <<>>

\* OpCollection.__init__ (lines 204-205): self.operators = {}
OpCollection == <<>>

\* registration of instance inst under the id c.o: the collection c is
\* created on first use and the entry o is inserted or overwritten
register_class(d, c, o, inst) ==
    IF c \in DOMAIN d THEN Put(d, c, Put(d[c], o, inst))
    ELSE Put(d, c, Put(OpCollection, o, inst))

\* OpCollection.__getattr__ (lines 207-211) on the collection whose
\* operators dict is ops
OpCollection__getattr__(ops, attr) ==
    IF attr \in DOMAIN ops THEN Found("Operator", ops[attr])
    ELSE AttributeError

\* OpsModule.__getattr__ (lines 224-228)
OpsModule__getattr__(attr) ==
    IF attr \in DOMAIN colls THEN Found("OpCollection", colls[attr])
    ELSE AttributeError

\* coll.attr on an OpCollection: Python finds the instance attribute
\* `operators` set in __init__ by normal lookup and consults __getattr__
\* only for names normal lookup does not find
OpCollection_attr(ops, attr) ==
    IF attr = "operators" THEN Found("dict", 0)
    ELSE OpCollection__getattr__(ops, attr)

\* vpy.ops.attr on the OpsModule: the instance attribute `colls` is found
\* by normal lookup, every other name goes to __getattr__
OpsModule_attr(attr) ==
    IF attr = "colls" THEN Found("dict", 0)
    ELSE OpsModule__getattr__(attr)

\* vpy.ops.c.o: resolve the collection, then the operator in it; a dict
\* has none of the names of the model as an attribute
Resolve(c, o) ==
    LET r == OpsModule_attr(c)
    IN  IF r.tag = "OpCollection" THEN OpCollection_attr(r.val, o)
        ELSE AttributeError

Register ==
    /\ Len(regLog) < MaxRegs
    /\ \E c \in Names, o \in Names, inst \in Instances :
          /\ colls' = register_class(colls, c, o, inst)
          /\ regLog' = Append(regLog, <<c, o, inst>>)
    /\ lookup' = <<>>
    /\ UNCHANGED <<opVars, propVars, otherVars>>

Lookup ==
    /\ \E c \in Names, o \in Names :
          lookup' = <<[coll |-> c, op |-> o,
                       first |-> OpsModule_attr(c).tag,
                       result |-> Resolve(c, o)]>>
    /\ UNCHANGED <<colls, regLog, opVars, propVars, otherVars>>

\* ------------------------------------------------------------------------
\* Attribute lookup on Scene and PropCollection
\* ------------------------------------------------------------------------
\* the instance attributes Scene.__init__ sets (lines 60-65)
SceneFields == {"meta", "time", "date", "is_saved", "is_dirty"}
\* the instance attribute PropCollection.__init__ sets (lines 404-405)
PropCollectionFields == {"_values"}
\* Property-Group ids that registration may attach to the Scene
GroupNames == {"output", "audio"}
\* property names that registration may store in a PropCollection
PropNames == {"x_res", "y_res"}
\* the names looked up
AttrNames == {"meta", "_values", "output", "x_res", "fps"}

RecursionError == [tag |-> "RecursionError", val |-> 0]

RECURSIVE Scene__getattr__(_, _, _)
RECURSIVE PropCollection__getattr__(_, _, _)

\* getattr(scene, attr) / hasattr(scene, attr) at call depth `depth`:
\* normal lookup over the instance attributes `attrs`, then __getattr__
Scene_attr(attrs, attr, depth) ==
    IF attr \in attrs THEN Found("attribute", attr)
    ELSE Scene__getattr__(attrs, attr, depth + 1)

\* Scene.__getattr__ (lines 67-71), reached only when normal lookup has
\* not found attr.  hasattr(self, attr) is a lookup of its own and turns
\* AttributeError, and no other fault, into False.
Scene__getattr__(attrs, attr, depth) ==
    IF depth > MaxRecursion THEN RecursionError
    ELSE LET h == Scene_attr(attrs, attr, depth)
         IN  IF h.tag = "RecursionError" THEN h
             ELSE IF h.tag # "AttributeError"
             THEN Scene_attr(attrs, attr, depth)
             ELSE AttributeError

\* getattr(coll, attr) on a PropCollection with instance attributes attrs
PropCollection_attr(attrs, attr, depth) ==
    IF attr \in attrs THEN Found("attribute", attr)
    ELSE PropCollection__getattr__(attrs, attr, depth + 1)

\* PropCollection.__getattr__ (lines 407-411); _values is not consulted
PropCollection__getattr__(attrs, attr, depth) ==
    IF depth > MaxRecursion THEN RecursionError
    ELSE LET h == PropCollection_attr(attrs, attr, depth)
         IN  IF h.tag = "RecursionError" THEN h
             ELSE IF h.tag # "AttributeError"
             THEN PropCollection_attr(attrs, attr, depth)
             ELSE AttributeError

\* registration of a Property Group with id g: its PropCollection becomes
\* an attribute of the Scene named g
AttachGroup ==
    /\ \E g \in GroupNames : sceneAttached' = sceneAttached \cup {g}
    /\ attrLookup' = <<>>
    /\ UNCHANGED <<pcValues, opVars, propVars, regVars, loadVars,
                   previewVars, trackVars>>

\* registration of property p under name n: an entry of _values, inserted
\* or overwritten
StoreProp ==
    /\ \E n \in PropNames, p \in Instances : pcValues' = Put(pcValues, n, p)
    /\ attrLookup' = <<>>
    /\ UNCHANGED <<sceneAttached, opVars, propVars, regVars, loadVars,
                   previewVars, trackVars>>

\* scene.attr
SceneLookup ==
    /\ \E attr \in AttrNames :
          attrLookup' =
             <<[on |-> "Scene", attr |-> attr,
                result |-> Scene_attr(SceneFields \cup sceneAttached, attr, 0)]>>
    /\ UNCHANGED <<sceneAttached, pcValues, opVars, propVars, regVars, loadVars,
                   previewVars, trackVars>>

\* coll.attr on the PropCollection
CollLookup ==
    /\ \E attr \in AttrNames :
          attrLookup' =
             <<[on |-> "PropCollection", attr |-> attr,
                result |-> PropCollection_attr(PropCollectionFields, attr, 0)]>>
    /\ UNCHANGED <<sceneAttached, pcValues, opVars, propVars, regVars, loadVars,
                   previewVars, trackVars>>

\* ------------------------------------------------------------------------
\* Load pass (src/register.py)
\* ------------------------------------------------------------------------
\* module names found in the directories
ModuleNames == {"plug", "util"}

\* a directory entry: a module file and whether the module defines register
Entries == [name : ModuleNames, has_register : BOOLEAN]

\* sequences of at most n entries with no module name twice
RECURSIVE Listings(_)
Listings(n) ==
    IF n = 0 THEN {<<>>}
    ELSE Listings(n - 1) \cup
         UNION { { Append(l, e) :
                     e \in { x \in Entries :
                             \A k \in DOMAIN l : l[k].name # x.name } } :
                 l \in { x \in Listings(n - 1) : Len(x) = n - 1 } }

\* a directory of the argument list: os.path.isdir(d) and os.listdir(d)
Directories == [isdir : BOOLEAN, listdir : Listings(MaxEntries)]

RECURSIVE DirLists(_)
DirLists(n) ==
    IF n = 0 THEN {<<>>}
    ELSE DirLists(n - 1) \cup
         { Append(l, d) : l \in { x \in DirLists(n - 1) : Len(x) = n - 1 },
                          d \in Directories }

\* the module file `name` of directory d
Module(d, name) == [dir |-> d, name |-> name]

\* the directories of sys.path (in order) that hold a module called name
Finders(path, name) ==
    { i \in DOMAIN path :
        \E k \in DOMAIN dirs[path[i]].listdir :
            dirs[path[i]].listdir[k].name = name }

\* importlib.import_module(name) (line 36): the module cached in
\* sys.modules under that name if there is one, otherwise the first one
\* found on sys.path
import_module(cache, path, name) ==
    IF name \in DOMAIN cache THEN cache[name]
    ELSE Module(path[SetMin(Finders(path, name))], name)

\* whether module m defines register
HasRegister(m) ==
    \E k \in DOMAIN dirs[m.dir].listdir :
        /\ dirs[m.dir].listdir[k].name = m.name
        /\ dirs[m.dir].listdir[k].has_register

\* the position after directory d
AfterDir(d) == IF d < Len(dirs) THEN <<d + 1, 0>> ELSE "done"

\* lines 26-28: take the next directory; one that does not exist is passed
\* over, an existing one is appended to sys.path
EnterDir ==
    /\ loadPc # "done"
    /\ loadPc[2] = 0
    /\ IF dirs[loadPc[1]].isdir
       THEN /\ sysPath' = Append(sysPath, loadPc[1])
            /\ loadPc' = <<loadPc[1], 1>>
       ELSE /\ loadPc' = AfterDir(loadPc[1])
            /\ UNCHANGED sysPath
    /\ UNCHANGED <<dirs, sysModules, registerLog, opVars, propVars, regVars,
                   attrVars, previewVars, trackVars>>

\* lines 29-30 and 34-39: register_module on the next entry of the
\* directory: import the module and call its register(); the
\* AttributeError of a module without register is swallowed
RegisterModule ==
    /\ loadPc # "done"
    /\ loadPc[2] >= 1
    /\ loadPc[2] <= Len(dirs[loadPc[1]].listdir)
    /\ LET name == dirs[loadPc[1]].listdir[loadPc[2]].name
           mod == import_module(sysModules, sysPath, name)
       IN  /\ sysModules' = Put(sysModules, name, mod)
           /\ registerLog' = IF HasRegister(mod)
                             THEN Append(registerLog, mod)
                             ELSE registerLog
    /\ loadPc' = <<loadPc[1], loadPc[2] + 1>>
    /\ UNCHANGED <<dirs, sysPath, opVars, propVars, regVars, attrVars,
                   previewVars, trackVars>>

\* line 31: the entries of the directory are done; sys.path.pop()
LeaveDir ==
    /\ loadPc # "done"
    /\ loadPc[2] > Len(dirs[loadPc[1]].listdir)
    /\ sysPath' = SubSeq(sysPath, 1, Len(sysPath) - 1)
    /\ loadPc' = AfterDir(loadPc[1])
    /\ UNCHANGED <<dirs, sysModules, registerLog, opVars, propVars, regVars,
                   attrVars, previewVars, trackVars>>

\* ------------------------------------------------------------------------
\* Preview pane (src/preview.py)
\* ------------------------------------------------------------------------
\* pygame events: the mouse buttons 1 (left), 2 (middle), 4 and 5 (wheel),
\* and events of another type
Events ==
    { [type |-> "MOUSEBUTTONDOWN", button |-> b] : b \in {1, 2, 4, 5} } \cup
    { [type |-> "MOUSEMOTION", button |-> 0] }

RECURSIVE EventLists(_)
EventLists(n) ==
    IF n = 0 THEN {<<>>}
    ELSE EventLists(n - 1) \cup
         { Append(l, e) : l \in { x \in EventLists(n - 1) : Len(x) = n - 1 },
                          e \in Events }

\* pygame.mouse.get_pos()
Positions == (0..MaxCoord) \X (0..MaxCoord)

\* lines 41-49: the loop over the events of the frame, on the fields
\* p = [size, drag_start_pos, drag_start_loc]
RECURSIVE HandleEvents(_, _, _)
HandleEvents(p, events, pos) ==
    IF events = <<>> THEN p
    ELSE LET event == Head(events)
             q == IF event.type # "MOUSEBUTTONDOWN" THEN p
                  ELSE IF event.button = 2
                  THEN [p EXCEPT !.drag_start_pos = <<pos>>,
                                 !.drag_start_loc = <<loc>>]
                  ELSE IF event.button = 4
                  THEN [p EXCEPT !.size = Append(@, "*1.08")]
                  ELSE IF event.button = 5
                  THEN [p EXCEPT !.size = Append(@, "/1.08")]
                  ELSE p
         IN  HandleEvents(q, Tail(events), pos)

\* lines 53-56: the new loc of a dragged preview
DragLoc(pos, start_pos, start_loc) ==
    << pos[1] - start_pos[1] + start_loc[1],
       pos[2] - start_pos[2] + start_loc[2] >>

\* Preview.draw (lines 39-57), up to the painting of the surface: one
\* frame with the events of the frame, the mouse position and the state of
\* the middle button (get_pressed()[1]). Subscripting the None of a start
\* position that was never set raises TypeError, after dragging was stored.
Draw ==
    \E events \in EventLists(MaxEvents), pos \in Positions, pressed \in BOOLEAN :
        LET p == HandleEvents([size |-> size,
                               drag_start_pos |-> drag_start_pos,
                               drag_start_loc |-> drag_start_loc],
                              events, pos)
            unset == p.drag_start_pos = <<>>
            new == IF pressed /\ ~unset
                   THEN DragLoc(pos, p.drag_start_pos[1], p.drag_start_loc[1])
                   ELSE loc
        IN  /\ Len(p.size) <= MaxZoom
            /\ \A i \in 1..2 : new[i] \in (0 - MaxLoc)..MaxLoc
            /\ size' = p.size
            /\ drag_start_pos' = p.drag_start_pos
            /\ drag_start_loc' = p.drag_start_loc
            /\ dragging' = pressed
            /\ loc' = new
            /\ drawError' = IF pressed /\ unset THEN "TypeError" ELSE "none"
            /\ UNCHANGED <<opVars, propVars, regVars, attrVars, loadVars,
                           trackVars>>

\* ------------------------------------------------------------------------
\* Specifications
\* ------------------------------------------------------------------------
\* Preview.__init__ (lines 29-37)
InitPreview ==
    /\ size = <<>>
    /\ loc = <<0, 0>>
    /\ dragging = FALSE
    /\ drag_start_pos = <<>>
    /\ drag_start_loc = <<>>
    /\ drawError = "none"

\* no invocation in progress, none has ended
InitTrack ==
    /\ track = <<>>
    /\ trackRet = <<>>

\* Context.__init__ (lines 86-92), no invocation in progress
InitContext ==
    /\ num_changes = 0
    /\ last_report = <<>>
    /\ last_report_time = 0
    /\ stack = <<>>
    /\ ret = <<>>
    /\ reportCalls = <<>>
    /\ started = 0

InitRegistry ==
    /\ colls = OpsModule
    /\ regLog = <<>>
    /\ lookup = <<>>

\* Scene.__init__ (lines 60-65) and PropCollection.__init__ (404-405):
\* nothing attached, nothing stored
InitAttr ==
    /\ sceneAttached = {}
    /\ pcValues = <<>>
    /\ attrLookup = <<>>

\* no load pass under way: register([]) has nothing to do
InitNoLoad ==
    /\ dirs = <<>>
    /\ loadPc = "done"
    /\ sysPath = <<>>
    /\ sysModules = <<>>
    /\ registerLog = <<>>

\* entry of register(dirs) (line 25) in a fresh interpreter, for any
\* argument list and disk content
InitLoad ==
    /\ InitContext
    /\ InitRegistry
    /\ InitAttr
    /\ InitPreview
    /\ InitTrack
    /\ prop = IntProp(<<>>, <<>>)
    /\ propArg = <<>>
    /\ dirs \in DirLists(MaxDirs) \ {<<>>}
    /\ loadPc = <<1, 0>>
    /\ sysPath = <<>>
    /\ sysModules = <<>>
    /\ registerLog = <<>>

Init ==
    /\ InitContext
    /\ InitRegistry
    /\ InitAttr
    /\ InitNoLoad
    /\ InitPreview
    /\ InitTrack
    /\ prop = IntProp(<<>>, <<>>)
    /\ propArg = <<>>

InitProp ==
    /\ InitContext
    /\ InitRegistry
    /\ InitAttr
    /\ InitNoLoad
    /\ InitPreview
    /\ InitTrack
    /\ prop \in Props
    /\ propArg = <<>>

Next ==
    \/ Invoke
    \/ NestedInvoke
    \/ Poll
    \/ ExecReport
    \/ ExecReturn
    \/ ExecRaise

NextProp ==
    \/ IntSet
    \/ FloatSet
    \/ EnumSet

NextReg ==
    \/ Register
    \/ Lookup

NextAttr ==
    \/ AttachGroup
    \/ StoreProp
    \/ SceneLookup
    \/ CollLookup

NextLoad ==
    \/ EnterDir
    \/ RegisterModule
    \/ LeaveDir

NextPreview == Draw

NextTracked ==
    \/ TrackedInvoke
    \/ TrackedNestedInvoke
    \/ TrackedPoll
    \/ TrackedExecReport
    \/ TrackedExecReturn
    \/ TrackedExecRaise

\* operator invocations on a fresh Context
Spec == Init /\ [][Next]_vars

\* set() calls on a property object
SpecProp == InitProp /\ [][NextProp]_vars

\* registrations and resolutions on a fresh registry
SpecReg == Init /\ [][NextReg]_vars

\* registrations and lookups on a fresh Scene and PropCollection
SpecAttr == Init /\ [][NextAttr]_vars

\* one load pass register(dirs)
SpecLoad == InitLoad /\ [][NextLoad]_vars

\* the frames drawn by a fresh Preview
SpecPreview == Init /\ [][NextPreview]_vars

\* operator invocations with the record of each
SpecTracked == Init /\ [][NextTracked]_vars

\* ------------------------------------------------------------------------
\* Properties of the Operator invocation protocol (checked under Spec)
\* ------------------------------------------------------------------------
\* the invocation that has just ended, when there is one
Ended == ret # <<>>
R == ret[1]

\* the invocation R was turned down by validation: "CANCELLED", an ERROR
\* report, and neither hook was called
Rejected ==
    /\ R.status = "CANCELLED"
    /\ R.npoll = 0
    /\ R.nexec = 0
    /\ last_report # <<>>
    /\ last_report[1] = "ERROR"

\* C1: every invocation that returns, returns "FINISHED" or "CANCELLED";
\* when execute was called and returned a valid status, the invocation
\* returns that status (the base Operator returns "FINISHED").
C1_ReturnsStatus ==
    (Ended /\ R.status # "RAISED") =>
        /\ R.status \in ValidStatus
        /\ (R.val \in ValidStatus => R.status = R.val)
        /\ (R.op = "base" => R.status = "FINISHED")

\* a step in which an invocation starts: an activation record is pushed,
\* or the call is turned down on the spot
Starts ==
    \/ Len(stack') > Len(stack)
    \/ (Len(stack') = Len(stack) /\ ret' # <<>>)

\* C2: num_changes goes up by exactly 1 in the step that starts an
\* invocation, whatever the invocation's branch, and no other step of the
\* protocol changes it (the increment is never undone).
C2_OneChangePerInvocation ==
    [][IF Starts THEN num_changes' = num_changes + 1
       ELSE num_changes' = num_changes]_vars

\* a call turned down by validation has been counted
C2_Witness ==
    /\ Ended
    /\ R.status = "CANCELLED"
    /\ R.npoll = 0
    /\ num_changes = 2

\* C3: an invocation whose poll or execute hook raised still ends by
\* returning "FINISHED" or "CANCELLED".
C3_NoFaultEscapes ==
    (Ended /\ (R.pollres = "RAISE" \/ R.val = "RAISE")) =>
        R.status \in ValidStatus

\* C4: when poll returned false or raised, the invocation returns
\* "CANCELLED", the last report is the ERROR report of the failed poll
\* (the same for both outcomes) and execute was not called.
C4_PollFailure ==
    (Ended /\ R.pollres \in {"FALSE", "RAISE"}) =>
        /\ R.status = "CANCELLED"
        /\ R.nexec = 0
        /\ last_report = <<"ERROR", Msg("PollFailed", "", R.op)>>

C4_Witness ==
    /\ Ended
    /\ R.pollres = "RAISE"
    /\ R.npoll = 1
    /\ R.status = "CANCELLED"

\* C5: a call with fewer positional arguments than a set min_args, or more
\* than a set max_args, is turned down (CANCELLED, ERROR report, no hook
\* called); with min_args and max_args unset no call is turned down by a
\* count check.
C5_ArgCountValidation ==
    Ended =>
        LET o == Operators[R.op]
        IN  /\ (o.min_args # <<>> /\ R.nargs < o.min_args[1]) => Rejected
            /\ (o.max_args # <<>> /\ R.nargs > o.max_args[1]) => Rejected
            /\ (o.min_args = <<>> /\ o.max_args = <<>> /\ Rejected) =>
                  last_report[2].kind \notin {"TooFew", "TooMany"}

C5_Witness ==
    /\ Ended
    /\ R.op = "count"
    /\ R.nargs = 0
    /\ Rejected
    /\ last_report[2].kind = "TooFew"

\* C6: a call that lacks a name of kwargs_include or passes a name of
\* kwargs_exclude is turned down (CANCELLED, ERROR report, no hook called);
\* a call that has every included name and no excluded one is not turned
\* down by the keyword checks.
C6_KeywordValidation ==
    Ended =>
        LET o == Operators[R.op]
            lacks == \E i \in DOMAIN o.kwargs_include :
                        o.kwargs_include[i] \notin R.kwargs
            has == \E i \in DOMAIN o.kwargs_exclude :
                        o.kwargs_exclude[i] \in R.kwargs
        IN  /\ (lacks \/ has) => Rejected
            /\ (~lacks /\ ~has /\ Rejected) =>
                  last_report[2].kind \notin {"MustInclude", "MustExclude"}

C6_Witness ==
    /\ Ended
    /\ R.op = "kw"
    /\ R.kwargs = {"a", "b", "c"}
    /\ Rejected
    /\ last_report[2] = Msg("MustExclude", "c", "kw")

C12_LastWriteWins ==
    /\ last_report = reportCalls
    /\ (last_report = <<>>) <=> (reportCalls = <<>>)

\* an execute hook has just called report during the second invocation
C12_Witness ==
    /\ reportCalls # <<>>
    /\ reportCalls[1] = "WARNING"
    /\ last_report = reportCalls
    /\ stack # <<>>
    /\ num_changes = 2

\* the checks of the call with activation record (or outcome) f that fail,
\* by their position in the protocol: 1 min_args, 2 max_args,
\* 3 kwargs_include, 4 kwargs_exclude
FailingSteps(f) ==
    LET o == Operators[f.op]
    IN  { n \in 1..4 :
            \/ n = 1 /\ o.min_args # <<>> /\ f.nargs < o.min_args[1]
            \/ n = 2 /\ o.max_args # <<>> /\ f.nargs > o.max_args[1]
            \/ n = 3 /\ \E i \in DOMAIN o.kwargs_include :
                           o.kwargs_include[i] \notin f.kwargs
            \/ n = 4 /\ \E i \in DOMAIN o.kwargs_exclude :
                           o.kwargs_exclude[i] \in f.kwargs }

\* the kind of report of each check
StepKind == <<"TooFew", "TooMany", "MustInclude", "MustExclude">>

\* the hooks of f were called in protocol order: each at most once, poll
\* only when no check fails, execute only after poll returned true
InOrder(f) ==
    /\ f.npoll <= 1
    /\ f.nexec <= 1
    /\ f.npoll = 1 => FailingSteps(f) = {}
    /\ f.nexec = 1 => (f.npoll = 1 /\ f.pollres = "TRUE")

\* how the invocation with outcome r ends, from its own validation, poll
\* and execute result alone
OwnStatus(r) ==
    IF FailingSteps(r) # {} \/ r.pollres # "TRUE" THEN "CANCELLED"
    ELSE IF r.val = "RAISE" THEN "RAISED"
    ELSE CallResult(r.val)

\* C13: num_changes is the number of invocations started, top-level and
\* nested alike; a nested invocation goes through the protocol like any
\* other while its callers wait in their execute hooks; and how an
\* invocation ends is decided by its own validation, poll and execute
\* result.
C13_NestedInvocation ==
    /\ num_changes = started
    /\ \A i \in DOMAIN stack :
          /\ InOrder(stack[i])
          /\ FailingSteps(stack[i]) = {}
          /\ i < Len(stack) =>
                (stack[i].pc = "execute" /\ Operators[stack[i].op].overrides)
    /\ Ended => (InOrder(R) /\ R.status = OwnStatus(R))

\* a nested invocation has gone through poll and execute and has ended,
\* its caller still in execute, and both have been counted
C13_Witness ==
    /\ Len(stack) = 1
    /\ Top.pc = "execute"
    /\ Ended
    /\ R.npoll = 1
    /\ R.nexec = 1
    /\ num_changes = 2
    /\ started = 2

\* C15: the steps run in the order min_args, max_args, kwargs_include,
\* kwargs_exclude, poll, execute and stop at the first failure: a call for
\* which checks fail ends with exactly one report, the one of the earliest
\* failing check; poll is called at most once and only when no check
\* fails; execute is called at most once and only after poll returned
\* true.
C15_StepOrder ==
    /\ \A i \in DOMAIN stack : InOrder(stack[i])
    /\ Ended =>
          /\ InOrder(R)
          /\ FailingSteps(R) # {} =>
                /\ R.nrep = 1
                /\ R.npoll = 0
                /\ R.nexec = 0
                /\ last_report[1] = "ERROR"
                /\ last_report[2].kind = StepKind[SetMin(FailingSteps(R))]
                /\ last_report[2].op = R.op

\* a call failing the min_args check and both keyword checks
C15_Witness ==
    /\ Ended
    /\ R.op = "strict"
    /\ FailingSteps(R) = {1, 3, 4}
    /\ last_report[2].kind = "TooFew"

\* ------------------------------------------------------------------------
\* Properties of the typed properties (checked under SpecProp)
\* ------------------------------------------------------------------------
\* C8: for an integer or float property with min <= max, after set(v) the
\* value lies in [min, max]; it is v when v lies in [min, max], min when
\* v < min and max when v > max.
C8_ClampedToBounds ==
    (prop.kind \in {"int", "float"} /\ propArg # <<>>
        /\ Le(prop.min, prop.max)) =>
        LET v == propArg[1]
            g == Property_get(prop)
        IN  /\ Le(prop.min, g)
            /\ Le(g, prop.max)
            /\ (Le(prop.min, v) /\ Le(v, prop.max)) => g = v
            /\ Lt(v, prop.min) => g = prop.min
            /\ Lt(prop.max, v) => g = prop.max

\* C9: for an enum property with N items, after set(i) the index lies in
\* 0..N-1; it is N-1 when i >= N.
C9_IndexInRange ==
    (prop.kind = "enum" /\ propArg # <<>>) =>
        LET i == propArg[1]
            n == Len(prop.items)
        IN  /\ i <= n - 1 => (0 <= prop.idx /\ prop.idx <= n - 1)
            /\ i >= n => prop.idx = n - 1

\* C18: for an enum property with at least one item, after any set(i)
\* get() succeeds and returns the id of one of the declared items.
C18_EnumGetSucceeds ==
    (prop.kind = "enum" /\ Len(prop.items) >= 1 /\ propArg # <<>>) =>
        /\ EnumProp_get(prop) # "IndexError"
        /\ EnumProp_get(prop) \in { prop.items[k][1] : k \in DOMAIN prop.items }

\* ------------------------------------------------------------------------
\* Properties of the operator registry (checked under SpecReg)
\* ------------------------------------------------------------------------
\* positions in regLog of the registrations under the id c.o
RegsOf(c, o) ==
    { k \in DOMAIN regLog : regLog[k][1] = c /\ regLog[k][2] = o }

SetMax(S) == CHOOSE x \in S : \A y \in S : y <= x

\* C10: resolving collection c and then operator o returns the instance
\* last registered under c.o; a collection name that was never registered
\* and an id that was never registered resolve to AttributeError.
C10_RegistryRoundTrip ==
    lookup # <<>> =>
        LET l == lookup[1]
        IN  /\ RegsOf(l.coll, l.op) # {} =>
                  /\ l.result.tag = "Operator"
                  /\ l.result.val = regLog[SetMax(RegsOf(l.coll, l.op))][3]
            /\ RegsOf(l.coll, l.op) = {} =>
                  l.result.tag = "AttributeError"
            /\ (\A k \in DOMAIN regLog : regLog[k][1] # l.coll) =>
                  l.first = "AttributeError"

\* ------------------------------------------------------------------------
\* Properties of Scene and PropCollection lookups (checked under SpecAttr)
\* ------------------------------------------------------------------------
\* C11: looking up a name that is not attached on the Scene, or not
\* present on the PropCollection, ends with AttributeError.
C11_AbsentNameNotFound ==
    attrLookup # <<>> =>
        LET l == attrLookup[1]
            absent == IF l.on = "Scene"
                      THEN l.attr \notin SceneFields \cup sceneAttached
                      ELSE l.attr \notin PropCollectionFields
                              \cup DOMAIN pcValues
        IN  absent => l.result.tag = "AttributeError"

\* C16: a property stored in the PropCollection under name n is what
\* resolving n on the collection returns (the last one stored under n).
C16_PropCollectionRoundTrip ==
    (attrLookup # <<>> /\ attrLookup[1].on = "PropCollection"
        /\ attrLookup[1].attr \in DOMAIN pcValues) =>
        /\ attrLookup[1].result.tag = "Property"
        /\ attrLookup[1].result.val = pcValues[attrLookup[1].attr]

\* ------------------------------------------------------------------------
\* Properties of the load pass (checked under SpecLoad)
\* ------------------------------------------------------------------------
\* how often register() of module m was invoked
Calls(m) == Cardinality({ i \in DOMAIN registerLog : registerLog[i] = m })

\* C14: when the pass is over, every module of an existing directory that
\* defines register() has had it invoked exactly once, also when another
\* directory holds a module of the same name; a module without register()
\* has been passed over; and the invocations follow the order of the
\* directories.
C14_RegisterOncePerModule ==
    loadPc = "done" =>
        /\ \A d \in DOMAIN dirs : \A k \in DOMAIN dirs[d].listdir :
              LET e == dirs[d].listdir[k]
              IN  Calls(Module(d, e.name)) =
                     IF dirs[d].isdir /\ e.has_register THEN 1 ELSE 0
        /\ \A i, j \in DOMAIN registerLog :
              i < j => registerLog[i].dir <= registerLog[j].dir

\* ------------------------------------------------------------------------
\* Properties of the preview pane (checked under SpecPreview)
\* ------------------------------------------------------------------------
\* C19: in every frame in which the middle button is held, the start
\* position and start location of the drag have been set by a button-2
\* event of that or an earlier frame, so computing the new loc does not
\* read an unset start position; and a frame in which the middle button is
\* not held leaves loc unchanged.
C19_DragStartSet ==
    [][ /\ dragging' =>
            /\ drag_start_pos' # <<>>
            /\ drag_start_loc' # <<>>
            /\ drawError' = "none"
        /\ ~dragging' => loc' = loc ]_vars

\* ------------------------------------------------------------------------
\* Frame effect of a successful invocation (checked under SpecTracked)
\* ------------------------------------------------------------------------
\* the record of the invocation that has just ended
T == trackRet[1]

\* the invocation that has just ended passed validation, its poll returned
\* true and its execute returned a valid status without calling report
Successful ==
    /\ Ended
    /\ FailingSteps(R) = {}
    /\ R.pollres = "TRUE"
    /\ R.val \in ValidStatus
    /\ ~T.reported

\* C17 as stated: a successful invocation whose execute did not itself
\* call report leaves last_report and last_report_time as it found them.
C17_SuccessLeavesReport ==
    Successful => <<last_report, last_report_time>> = T.snap

\* C17 for an invocation in which no nested invocation wrote a report
\* either: last_report and last_report_time are as the invocation found
\* them, so the ERROR report of an earlier failed invocation is still
\* there.
C17_QuietSuccessLeavesReport ==
    (Successful /\ ~T.inner) => <<last_report, last_report_time>> = T.snap

\* a successful invocation after a failed one, the ERROR report of the
\* failed one still in place
C17_Witness ==
    /\ Successful
    /\ ~T.inner
    /\ stack = <<>>
    /\ R.op = "count"
    /\ T.snap[1] # <<>>
    /\ T.snap[1][1] = "ERROR"
    /\ last_report = T.snap[1]

====
